---- MODULE Spec2Model ----
(***************************************************************************)
(* flurry::HashSet (src/src/set.rs): a concurrent hash set implemented as  *)
(* a HashMap whose value type is ().  The facade operations are translated *)
(* from set.rs; the backing HashMap and the epoch Guard live outside       *)
(* set.rs and are modelled from their documented contract.                 *)
(***************************************************************************)
EXTENDS Integers, Sequences, FiniteSets, TLC

VARIABLES
    map,    \* map[s]: the HashMap owned by set s (HashSet.map)
    last    \* the call that returned last: operation, arguments, result,
            \* the stores before it, and what it traversed and probed

VARIABLES
    pc,      \* pc[t]: where thread t stands in its program
    idx,     \* idx[t]: which value of its range thread t inserts next
    old,     \* old[t]: what map.insert returned to thread t's pending insert
    rets,    \* rets[t]: what thread t's insert calls returned, in order
    epoch,   \* the store's logical clock: one tick per removal
    guardOf, \* guardOf[t]: the Guards thread t holds, the outermost first
    ref,     \* ref[t]: the element reference thread t holds, if any
    garbage, \* removed elements not yet reclaimed, with the tick of removal
    freed    \* reclaimed elements, with the tick of their removal

VARIABLES
    cur,     \* cur[t]: the call thread t is in, and what it has done so far
    hist     \* the calls that have returned, in the order of their return

\* The state of the threads and of the reclamation scheme.
conc == <<pc, idx, old, rets, epoch, guardOf, ref, garbage, freed, cur, hist>>

vars == <<map, last, conc>>

\* ------------------------------------------------------------------ bounds
\* The keys one caller works with are 1..MaxVal.
MaxVal == 3

\* Threads sharing one set, and the size of the range each one inserts.
NThreads == 2
MRange == 3

\* Removals that are ever made in the reclamation specification.
MaxEpoch == 2

\* The longest sequence of items handed to a bulk load.
MaxItems == 2

\* Inserts and removes other threads make while one bulk operation runs.
MaxMut == 2

\* Calls the threads make, all in all, on the key they contend for.
MaxCalls == 3

\* Guards one thread holds at once, one inside the other.
MaxNest == 2

\* Calls the threads make, all in all, beside a thread that keeps its guard.
MaxWork == 2

Vals == 1 .. MaxVal

Threads == 1 .. NThreads

\* The i-th value of thread t's range: the ranges are pairwise disjoint.
Value(t, i) == (t - 1) * MRange + i

\* Every key a store may hold.
Keys == 1 .. (IF MaxVal > NThreads * MRange THEN MaxVal ELSE NThreads * MRange)

\* The two set instances of the quiescent (single caller) specification.
SetIds == {"A", "B"}

\* Guard tokens a caller presents (our_guard / their_guard).
Guards == {"g1", "g2"}

\* Element instances (T).  Two instances are equal under Ord/Hash iff their
\* keys agree; key 1 has two distinguishable instances, so that "the stored
\* element" and "the value passed in" can differ.
Elems == {[key |-> k, inst |-> i] : k \in Vals, i \in {1}}
           \cup {[key |-> 1, inst |-> 2]}

\* The borrowed form Q of an element: what Hash and Ord look at.
Borrow(e) == e.key

\* ---------------------------------------------------------------- Option
\* Option<X> is a sequence of length <= 1: <<>> is None, <<x>> is Some(x).
None == <<>>
Some(x) == <<x>>
is_none(o) == o = <<>>
is_some(o) == o # <<>>

\* The unit value ().
Unit == "unit"

\* ------------------------------------------------- the backing HashMap<T,()>
\* A store is its table, a function from the keys present to the stored
\* element, and its element count.

\* HashMap::with_hasher: an empty store.
map_new == [tab |-> [k \in {} |-> 0], count |-> 0]

\* HashMap::len: the advisory element count, never negative.
map_len(m) == IF m.count < 0 THEN 0 ELSE m.count

\* HashMap::contains_key
map_contains_key(m, q) == q \in DOMAIN m.tab

\* HashMap::get_key_value: Option<(&K, &V)>
map_get_key_value(m, q) ==
    IF q \in DOMAIN m.tab THEN Some(<<m.tab[q], Unit>>) ELSE None

\* HashMap::insert, its step on the key's bin: the key is stored if no
\* equal key is; the previous value is reported and the stored key is kept.
map_put(m, k, v) ==
    IF Borrow(k) \in DOMAIN m.tab
    THEN [map |-> m, old |-> Some(v)]
    ELSE [map |-> [m EXCEPT !.tab =
                      [q \in DOMAIN m.tab \cup {Borrow(k)} |->
                          IF q = Borrow(k) THEN k ELSE m.tab[q]]],
          old |-> None]

\* HashMap::add_count: one atomic addition to the element count.
map_add_count(m, n) == [m EXCEPT !.count = @ + n]

\* HashMap::insert: Option<&V>, the previous value.
map_insert(m, k, v) ==
    LET r == map_put(m, k, v)
    IN  [map |-> IF is_none(r.old) THEN map_add_count(r.map, 1) ELSE r.map,
         old |-> r.old]

\* HashMap::remove_entry: Option<(&K, &V)>
map_remove_entry(m, q) ==
    IF q \in DOMAIN m.tab
    THEN [map |-> [tab |-> [x \in DOMAIN m.tab \ {q} |-> m.tab[x]],
                   count |-> m.count - 1],
          old |-> Some(<<m.tab[q], Unit>>)]
    ELSE [map |-> m, old |-> None]

\* HashMap::remove: Option<&V>
map_remove(m, q) ==
    LET r == map_remove_entry(m, q)
    IN  [map |-> r.map,
         old |-> IF is_none(r.old) THEN None ELSE Some(r.old[1][2])]

\* HashMap::retain: every entry whose key fails the predicate is removed.
\* The predicate is given by the set of elements it holds for.
map_retain(m, f) ==
    LET kept == {k \in DOMAIN m.tab : m.tab[k] \in f}
    IN  [tab |-> [k \in kept |-> m.tab[k]],
         count |-> m.count - Cardinality(DOMAIN m.tab \ kept)]

\* HashMap::clear: every entry is removed.
map_clear(m) ==
    [tab |-> [k \in {} |-> 0],
     count |-> m.count - Cardinality(DOMAIN m.tab)]

RECURSIVE map_extend(_, _, _)
\* Extend for &HashMap: each (key, value) pair of the sequence is inserted,
\* in sequence order, from the i-th on.
map_extend(m, pairs, i) ==
    IF i > Len(pairs) THEN m
    ELSE map_extend(map_insert(m, pairs[i][1], pairs[i][2]).map, pairs, i + 1)

\* FromIterator for HashMap (collect): a fresh store, extended.
map_collect(pairs) == map_extend(map_new, pairs, 1)

RECURSIVE Perms(_)
\* Every order in which a finite set can be enumerated.
Perms(S) ==
    IF S = {} THEN {<<>>}
    ELSE UNION {{<<x>> \o p : p \in Perms(S \ {x})} : x \in S}

\* HashMap::keys: the live keys, in an order the store chooses.
map_keys(m) ==
    {[i \in 1 .. Len(p) |-> m.tab[p[i]]] : p \in Perms(DOMAIN m.tab)}

\* The bins of a store: an element equal to key k lives in bin k.
map_bins == Vals

\* HashMap::keys, lazily: the iterator begins with every bin still to visit.
map_keys_iter(m) == map_bins

\* Keys::next at bin k: the element the bin holds at that moment, if any.
map_keys_next(m, k) == IF k \in DOMAIN m.tab THEN Some(m.tab[k]) ELSE None

\* --------------------------------------------------------- HashSet facade
\* HashSet::new / default / with_hasher
new == map_new

\* Guard: the tick it pinned, and whether the store counts it as a pin.
map_guard == [epoch |-> epoch, protected |-> TRUE]

\* A guard that pins nothing (an unprotected guard) where guard() pins.
guard_unprotected(self) == [epoch |-> epoch, protected |-> FALSE]

\* HashSet::guard
guard(self) == map_guard

\* HashSet::len
len(self) == map_len(map[self])

\* HashSet::is_empty
is_empty(self) == len(self) = 0

\* HashSet::iter: the traversals Keys may produce.
iter(self, g) == map_keys(map[self])

\* An iterator that leaves one bin of the store out.
iter_lazy_skips(self, g) ==
    [src |-> self, todo |-> map_keys_iter(map[self]) \ {MaxVal}]

\* HashSet::iter, as the lazy iterator it returns: the set it reads and
\* the bins it has still to visit.
iter_lazy(self, g) == [src |-> self, todo |-> map_keys_iter(map[self])]

\* HashSet::contains
contains(self, value, g) == map_contains_key(map[self], value)

\* get that drops what the lookup found.
get_discards(self, value, g) == None

\* HashSet::get: .map(|(k, _)| k)
get(self, value, g) ==
    LET r == map_get_key_value(map[self], value)
    IN  IF is_none(r) THEN None ELSE Some(r[1][1])

\* old.is_some() where insert has old.is_none().
insert_returns_is_some(prior) == is_some(prior)

\* HashSet::insert, its last line: old.is_none()
insert_returns(prior) == is_none(prior)

\* insert with the test of the previous value inverted (old.is_some()).
insert_is_some(self, value, g) ==
    LET r == map_insert(map[self], value, Unit)
    IN  [map |-> r.map, ret |-> is_some(r.old)]

\* HashSet::insert
insert(self, value, g) ==
    LET r == map_insert(map[self], value, Unit)
    IN  [map |-> r.map, ret |-> insert_returns(r.old)]

\* remove with the test of the removed value inverted (removed.is_none()).
remove_is_none(self, value, g) ==
    LET r == map_remove(map[self], value)
    IN  [map |-> r.map, ret |-> is_none(r.old)]

\* HashSet::remove
remove(self, value, g) ==
    LET r == map_remove(map[self], value)
    IN  [map |-> r.map, ret |-> is_some(r.old)]

\* take that looks the entry up (get_key_value) instead of removing it.
take_as_get(self, value, g) ==
    [map |-> map[self], ret |-> get(self, value, g)]

\* HashSet::take: .map(|(k, _)| k)
take(self, value, g) ==
    LET r == map_remove_entry(map[self], value)
    IN  [map |-> r.map,
         ret |-> IF is_none(r.old) THEN None ELSE Some(r.old[1][1])]

\* retain with the predicate negated: the elements f holds for are removed.
retain_negated(self, f, g) == map_retain(map[self], Elems \ f)

\* HashSet::retain: self.map.retain(|value, ()| f(value), guard)
retain(self, f, g) == map_retain(map[self], f)

\* HashSet::clear
clear(self, g) == map_clear(map[self])

\* clear that asks the store for nothing to be removed (as reserve does).
clear_as_reserve(self, g) == [src |-> self, todo |-> {}]

\* HashSet::clear, as it begins: self.map.clear(guard) empties the store
\* bin by bin.
clear_scan(self, g) == [src |-> self, todo |-> map_keys_iter(map[self])]

\* retain with the predicate negated, as it begins.
retain_scan_negated(self, f, g) ==
    [src |-> self, todo |-> map_keys_iter(map[self]), pred |-> Elems \ f]

\* HashSet::retain, as it begins: self.map.retain(|value, ()| f(value),
\* guard) tests the store's elements bin by bin.
retain_scan(self, f, g) ==
    [src |-> self, todo |-> map_keys_iter(map[self]), pred |-> f]

\* clone that builds an empty set and copies nothing.
clone_of_new(self) == [src |-> self, todo |-> {}, into |-> new]

\* Clone for HashSet: Self { map: self.map.clone() }, as it begins: the
\* store's clone reads self bin by bin and inserts into a new store.
clone(self) ==
    [src |-> self, todo |-> map_keys_iter(map[self]), into |-> new]

\* iter.into_iter().map(|v| (v, ())): each item paired with the unit value.
with_unit(items) == [i \in 1 .. Len(items) |-> <<items[i], Unit>>]

\* FromIterator for HashSet: Self { map: ... .collect() }
from_iter(items) == map_collect(with_unit(items))

\* extend that collects the items into a new store, dropping self's elements.
extend_into_new(self, items) == from_iter(items)

\* Extend for &HashSet: Extend::extend(&mut &self.map, ...)
extend(self, items) == map_extend(map[self], with_unit(items), 1)

\* ------------------------------------------------------------ set algebra
\* What a comparison did, in order: "next" is one element yielded by the
\* traversal of a set under a guard, "probe" one lookup of a key in a set
\* under a guard.
Next_ev(s, g, k) == [ev |-> "next", set |-> s, guard |-> g, key |-> k]
Probe_ev(s, g, k) == [ev |-> "probe", set |-> s, guard |-> g, key |-> k]

RECURSIVE disjoint_loop(_, _, _, _, _, _, _)
\* for value in self.iter(our_guard) { if other.contains(..) { return false } } true
disjoint_loop(it, i, self, other, our_guard, their_guard, log) ==
    IF i > Len(it) THEN [ret |-> TRUE, log |-> log]
    ELSE LET value == it[i]
             log2 == log \o <<Next_ev(self, our_guard, Borrow(value)),
                              Probe_ev(other, their_guard, Borrow(value))>>
         IN  IF contains(other, Borrow(value), their_guard)
             THEN [ret |-> FALSE, log |-> log2]
             ELSE disjoint_loop(it, i + 1, self, other, our_guard,
                                their_guard, log2)

\* is_disjoint that probes self, not other (self.contains(value, ..)).
is_disjoint_probes_self(self, other, our_guard, their_guard) ==
    {disjoint_loop(it, 1, self, self, our_guard, their_guard, <<>>) :
        it \in iter(self, our_guard)}

\* HashSet::is_disjoint: one outcome per traversal order of self.
is_disjoint(self, other, our_guard, their_guard) ==
    {disjoint_loop(it, 1, self, other, our_guard, their_guard, <<>>) :
        it \in iter(self, our_guard)}

RECURSIVE subset_loop(_, _, _, _, _, _, _)
\* for value in self.iter(our_guard) { if !other.contains(..) { return false } } true
subset_loop(it, i, self, other, our_guard, their_guard, log) ==
    IF i > Len(it) THEN [ret |-> TRUE, log |-> log]
    ELSE LET value == it[i]
             log2 == log \o <<Next_ev(self, our_guard, Borrow(value)),
                              Probe_ev(other, their_guard, Borrow(value))>>
         IN  IF ~contains(other, Borrow(value), their_guard)
             THEN [ret |-> FALSE, log |-> log2]
             ELSE subset_loop(it, i + 1, self, other, our_guard,
                              their_guard, log2)

\* is_subset with the negation of the probe dropped (the loop of is_disjoint).
is_subset_no_negation(self, other, our_guard, their_guard) ==
    {disjoint_loop(it, 1, self, other, our_guard, their_guard, <<>>) :
        it \in iter(self, our_guard)}

\* HashSet::is_subset
is_subset(self, other, our_guard, their_guard) ==
    {subset_loop(it, 1, self, other, our_guard, their_guard, <<>>) :
        it \in iter(self, our_guard)}

\* is_superset that forgets to swap the operands and their guards.
is_superset_no_swap(self, other, our_guard, their_guard) ==
    is_subset(self, other, our_guard, their_guard)

\* HashSet::is_superset
is_superset(self, other, our_guard, their_guard) ==
    is_subset(other, self, their_guard, our_guard)

RECURSIVE eq_all(_, _, _, _, _, _, _)
\* self.iter(our_guard).all(|(key, value)| other.get(key, their_guard)
\*     .map_or(false, |v| *value == *v))
eq_all(it, i, self, other, our_guard, their_guard, log) ==
    IF i > Len(it) THEN [ret |-> TRUE, log |-> log]
    ELSE LET key == it[i]
             log2 == log \o <<Next_ev(self, our_guard, Borrow(key)),
                              Probe_ev(other, their_guard, Borrow(key))>>
             v == map_get_key_value(map[other], Borrow(key))
         IN  IF is_none(v) \/ v[1][2] # Unit
             THEN [ret |-> FALSE, log |-> log2]
             ELSE eq_all(it, i + 1, self, other, our_guard, their_guard, log2)

\* HashMap::guarded_eq: the length check, then the pass over self.
map_guarded_eq(self, other, our_guard, their_guard) ==
    IF map_len(map[self]) # map_len(map[other])
    THEN {[ret |-> FALSE, log |-> <<>>]}
    ELSE {eq_all(it, 1, self, other, our_guard, their_guard, <<>>) :
            it \in map_keys(map[self])}

\* guarded_eq that compares self.map with itself.
guarded_eq_with_self(self, other, our_guard, their_guard) ==
    map_guarded_eq(self, self, our_guard, our_guard)

\* guarded_eq as the subset pass alone, without the comparison of lengths.
guarded_eq_as_subset(self, other, our_guard, their_guard) ==
    is_subset(self, other, our_guard, their_guard)

\* HashSet::guarded_eq
guarded_eq(self, other, our_guard, their_guard) ==
    map_guarded_eq(self, other, our_guard, their_guard)

\* PartialEq for HashMap: the comparison of guarded_eq under guards the
\* store pins itself.
map_eq(self, other) == map_guarded_eq(self, other, "pinned", "pinned")

\* PartialEq for HashSet: self.map == other.map
eq(self, other) == map_eq(self, other)

\* The elements stored in store m.
ElemsIn(m) == {m.tab[k] : k \in DOMAIN m.tab}

\* The elements stored in set s.
Stored(s) == {map[s].tab[k] : k \in DOMAIN map[s].tab}

\* ------------------------------------------- one caller, no interference
\* The argument of a call that takes no element.
NoArg == [key |-> 0, inst |-> 0]

\* A call record.  arg is the element passed (NoArg when the operation
\* takes none), key its borrowed form (0 when none), pre the stores before
\* the call, and again says that the call before it was the same operation
\* on the same set with an equal key.  pred is the predicate or the items
\* passed to a bulk operation (empty otherwise).
Call(op, self, other, arg, og, tg, ret, log) ==
    [op |-> op, self |-> self, other |-> other, arg |-> arg,
     key |-> Borrow(arg), our_guard |-> og, their_guard |-> tg,
     ret |-> ret, log |-> log, pre |-> map,
     again |-> last.op = op /\ last.self = self /\ last.key = Borrow(arg),
     pred |-> {}]

\* Thread t is in no call.
NoCall == [op |-> "none"]

\* A query by borrowed form: no owned instance is built.
Query(k) == [key |-> k, inst |-> 0]

Init ==
    /\ map = [s \in SetIds |-> new]
    /\ last = [op |-> "new", self |-> "A", other |-> "A", arg |-> NoArg,
               key |-> 0, our_guard |-> "g1", their_guard |-> "g1",
               ret |-> TRUE, log |-> <<>>, pre |-> [s \in SetIds |-> new],
               again |-> FALSE, pred |-> {}]
    /\ pc = [t \in Threads |-> "start"]
    /\ idx = [t \in Threads |-> 1]
    /\ old = [t \in Threads |-> None]
    /\ rets = [t \in Threads |-> <<>>]
    /\ epoch = 1
    /\ guardOf = [t \in Threads |-> None]
    /\ ref = [t \in Threads |-> None]
    /\ garbage = {}
    /\ freed = {}
    /\ cur = [t \in Threads |-> NoCall]
    /\ hist = <<>>

Insert(s, e, g) ==
    LET r == insert(s, e, g)
    IN  /\ map' = [map EXCEPT ![s] = r.map]
        /\ last' = Call("insert", s, s, e, g, g, r.ret, <<>>)
        /\ UNCHANGED conc

Remove(s, k, g) ==
    LET r == remove(s, k, g)
    IN  /\ map' = [map EXCEPT ![s] = r.map]
        /\ last' = Call("remove", s, s, Query(k), g, g, r.ret, <<>>)
        /\ UNCHANGED conc

Take(s, k, g) ==
    LET r == take(s, k, g)
    IN  /\ map' = [map EXCEPT ![s] = r.map]
        /\ last' = Call("take", s, s, Query(k), g, g, r.ret, <<>>)
        /\ UNCHANGED conc

Contains(s, k, g) ==
    /\ UNCHANGED map
    /\ last' = Call("contains", s, s, Query(k), g, g, contains(s, k, g), <<>>)
    /\ UNCHANGED conc

Get(s, k, g) ==
    /\ UNCHANGED map
    /\ last' = Call("get", s, s, Query(k), g, g, get(s, k, g), <<>>)
    /\ UNCHANGED conc

\* f is the set of elements the predicate holds for.
Retain(s, f, g) ==
    /\ map' = [map EXCEPT ![s] = retain(s, f, g)]
    /\ last' = [Call("retain", s, s, NoArg, g, g, Unit, <<>>) EXCEPT !.pred = f]
    /\ UNCHANGED conc

\* set.extend(items)
Extend(s, items) ==
    /\ map' = [map EXCEPT ![s] = extend(s, items)]
    /\ last' = [Call("extend", s, s, NoArg, "g1", "g1", Unit, <<>>)
                   EXCEPT !.pred = items]
    /\ UNCHANGED conc

\* let s: HashSet<_> = items.collect();
FromIter(s, items) ==
    /\ map' = [map EXCEPT ![s] = from_iter(items)]
    /\ last' = [Call("from_iter", s, s, NoArg, "g1", "g1", Unit, <<>>)
                   EXCEPT !.pred = items]
    /\ UNCHANGED conc

Clear(s, g) ==
    /\ map' = [map EXCEPT ![s] = clear(s, g)]
    /\ last' = Call("clear", s, s, NoArg, g, g, Unit, <<>>)
    /\ UNCHANGED conc

Length(s) ==
    /\ UNCHANGED map
    /\ last' = Call("len", s, s, NoArg, "g1", "g1", len(s), <<>>)
    /\ UNCHANGED conc

IsEmpty(s) ==
    /\ UNCHANGED map
    /\ last' = Call("is_empty", s, s, NoArg, "g1", "g1", is_empty(s), <<>>)
    /\ UNCHANGED conc

\* for e in set.iter(&guard) { .. }: the elements yielded are the result.
Iter(s, g) ==
    /\ UNCHANGED map
    /\ \E it \in iter(s, g) :
          last' = Call("iter", s, s, NoArg, g, g, it, <<>>)
    /\ UNCHANGED conc

\* a == b
Eq(s, o) ==
    /\ UNCHANGED map
    /\ \E r \in eq(s, o) :
          last' = Call("eq", s, o, NoArg, "pinned", "pinned", r.ret, r.log)
    /\ UNCHANGED conc

IsDisjoint(s, o, og, tg) ==
    /\ UNCHANGED map
    /\ \E r \in is_disjoint(s, o, og, tg) :
          last' = Call("is_disjoint", s, o, NoArg, og, tg, r.ret, r.log)
    /\ UNCHANGED conc

IsSubset(s, o, og, tg) ==
    /\ UNCHANGED map
    /\ \E r \in is_subset(s, o, og, tg) :
          last' = Call("is_subset", s, o, NoArg, og, tg, r.ret, r.log)
    /\ UNCHANGED conc

IsSuperset(s, o, og, tg) ==
    /\ UNCHANGED map
    /\ \E r \in is_superset(s, o, og, tg) :
          last' = Call("is_superset", s, o, NoArg, og, tg, r.ret, r.log)
    /\ UNCHANGED conc

GuardedEq(s, o, og, tg) ==
    /\ UNCHANGED map
    /\ \E r \in guarded_eq(s, o, og, tg) :
          last' = Call("guarded_eq", s, o, NoArg, og, tg, r.ret, r.log)
    /\ UNCHANGED conc

\* The element operations of one caller on the two sets.
Next ==
    \/ \E s \in SetIds, e \in Elems : Insert(s, e, "g1")
    \/ \E s \in SetIds, k \in Vals : Remove(s, k, "g1")
    \/ \E s \in SetIds, k \in Vals : Take(s, k, "g1")
    \/ \E s \in SetIds, k \in Vals : Contains(s, k, "g1")
    \/ \E s \in SetIds, k \in Vals : Get(s, k, "g1")
    \/ \E s \in SetIds : Length(s)

Spec == Init /\ [][Next]_vars

\* The bulk operations of one caller on the two sets, between inserts and
\* removes.
NextBulk ==
    \/ \E s \in SetIds, e \in Elems : Insert(s, e, "g1")
    \/ \E s \in SetIds, k \in Vals : Remove(s, k, "g1")
    \/ \E s \in SetIds, f \in SUBSET Elems : Retain(s, f, "g1")

SpecBulk == Init /\ [][NextBulk]_vars

\* The item sequences of a bulk load: every sequence of at most MaxItems
\* elements, duplicates and equal elements of different instances included.
ItemSeqs == UNION {[1 .. n -> Elems] : n \in 0 .. MaxItems}

\* One caller who builds set A from a sequence, and extends it with one,
\* between inserts and removes.
NextLoad ==
    \/ \E e \in Elems : Insert("A", e, "g1")
    \/ \E k \in Vals : Remove("A", k, "g1")
    \/ \E items \in ItemSeqs : Extend("A", items)
    \/ \E items \in ItemSeqs : FromIter("A", items)

SpecLoad == Init /\ [][NextLoad]_vars

\* The operand pairs a comparison is called on: two sets, or a set and itself.
Operands == {<<"A", "B">>, <<"B", "A">>, <<"A", "A">>}

\* The comparisons of one caller, who pins the first operand with g1 and
\* the second with g2, between inserts and removes that build the operands.
NextAlgebra ==
    \/ \E s \in SetIds, k \in Vals : Insert(s, [key |-> k, inst |-> 1], "g1")
    \/ \E s \in SetIds, k \in Vals : Remove(s, k, "g1")
    \/ \E p \in Operands : IsDisjoint(p[1], p[2], "g1", "g2")
    \/ \E p \in Operands : IsSubset(p[1], p[2], "g1", "g2")
    \/ \E p \in Operands : IsSuperset(p[1], p[2], "g1", "g2")
    \/ \E p \in Operands : GuardedEq(p[1], p[2], "g1", "g2")

SpecAlgebra == Init /\ [][NextAlgebra]_vars

\* The read-only operations of one caller, between inserts and removes that
\* build the sets.
NextRead ==
    \/ \E s \in SetIds, k \in Vals : Insert(s, [key |-> k, inst |-> 1], "g1")
    \/ \E s \in SetIds, k \in Vals : Remove(s, k, "g1")
    \/ \E s \in SetIds, k \in Vals : Contains(s, k, "g1")
    \/ \E s \in SetIds, k \in Vals : Get(s, k, "g1")
    \/ \E s \in SetIds : Length(s)
    \/ \E s \in SetIds : IsEmpty(s)
    \/ \E s \in SetIds : Iter(s, "g1")
    \/ \E p \in Operands : IsDisjoint(p[1], p[2], "g1", "g2")
    \/ \E p \in Operands : IsSubset(p[1], p[2], "g1", "g2")
    \/ \E p \in Operands : IsSuperset(p[1], p[2], "g1", "g2")
    \/ \E p \in Operands : GuardedEq(p[1], p[2], "g1", "g2")
    \/ \E p \in Operands : Eq(p[1], p[2])

SpecRead == Init /\ [][NextRead]_vars

\* ------------------------------ threads inserting disjoint ranges into A
\* Each thread pins a guard, inserts the values of its own range in order
\* through that guard and releases the guard.  HashMap::insert takes effect
\* on the key's bin, then adds to the element count; HashSet::insert then
\* returns.

\* let guard = set.guard();
Pin(t) ==
    /\ pc[t] = "start"
    /\ guardOf' = [guardOf EXCEPT ![t] = Some(guard("A"))]
    /\ pc' = [pc EXCEPT ![t] = "put"]
    /\ UNCHANGED <<map, last, idx, old, rets, epoch, ref, garbage, freed, cur, hist>>

\* self.map.insert(value, (), guard): the step on the key's bin.
Put(t) ==
    /\ pc[t] = "put"
    /\ LET r == map_put(map["A"], [key |-> Value(t, idx[t]), inst |-> 1], Unit)
       IN  /\ map' = [map EXCEPT !["A"] = r.map]
           /\ old' = [old EXCEPT ![t] = r.old]
           /\ pc' = [pc EXCEPT ![t] = IF is_none(r.old) THEN "count" ELSE "ret"]
    /\ UNCHANGED <<last, idx, rets, epoch, guardOf, ref, garbage, freed, cur, hist>>

\* self.map.insert(value, (), guard): the addition to the element count.
AddCount(t) ==
    /\ pc[t] = "count"
    /\ map' = [map EXCEPT !["A"] = map_add_count(@, 1)]
    /\ pc' = [pc EXCEPT ![t] = "ret"]
    /\ UNCHANGED <<last, idx, old, rets, epoch, guardOf, ref, garbage, freed, cur, hist>>

\* old.is_none(), and on to the next value of the range.
Return(t) ==
    /\ pc[t] = "ret"
    /\ rets' = [rets EXCEPT ![t] = Append(@, insert_returns(old[t]))]
    /\ idx' = [idx EXCEPT ![t] = IF @ < MRange THEN @ + 1 ELSE @]
    /\ pc' = [pc EXCEPT ![t] = IF idx[t] < MRange THEN "put" ELSE "unpin"]
    /\ UNCHANGED <<map, last, old, epoch, guardOf, ref, garbage, freed, cur, hist>>

\* drop(guard)
Unpin(t) ==
    /\ pc[t] = "unpin"
    /\ guardOf' = [guardOf EXCEPT ![t] = None]
    /\ pc' = [pc EXCEPT ![t] = "done"]
    /\ UNCHANGED <<map, last, idx, old, rets, epoch, ref, garbage, freed, cur, hist>>

NextInsert ==
    \/ \E t \in Threads : Pin(t)
    \/ \E t \in Threads : Put(t)
    \/ \E t \in Threads : AddCount(t)
    \/ \E t \in Threads : Return(t)
    \/ \E t \in Threads : Unpin(t)

SpecInsert == Init /\ [][NextInsert]_vars

\* ------------------------- one bulk operation among inserts and removes
\* Thread Scanner runs one bulk operation on set A, bin by bin, in an order
\* the store chooses; the other threads insert into A and remove from it
\* before and while it runs.  The call record of the bulk operation keeps
\* the predicate it was called with (pred) and the one the store tests
\* (test), what it has yielded (out), the element it is about to remove
\* (pending), how often it removed each key (swept) and the keys it found
\* gone when it came to remove them (noops), and for the claims: the
\* elements that were in A at some moment since the call (was), those that
\* were in A at every moment since (stayed), the keys other threads inserted
\* since (put), how often they removed each key since (cut), and how many
\* inserts and removes they made since (muts).
Scanner == 1
Mutators == Threads \ {Scanner}

\* The predicate of a retain that looks at the key alone.
ByKey(keep) == {e \in Elems : Borrow(e) \in keep}

\* No removal of any key.
NoRemovals == [k \in Vals |-> 0]

\* One more removal of key k.
Removal(b, k) == [b EXCEPT ![k] = @ + 1]

\* The call record of a bulk operation as it begins on iterator it.
Scan(op, it, f, test) ==
    [op |-> op, src |-> it.src, todo |-> it.todo, pred |-> f, test |-> test,
     out |-> <<>>, pending |-> None, swept |-> NoRemovals, noops |-> {},
     steps |-> 0, begun |-> map[it.src], was |-> Stored(it.src),
     stayed |-> Stored(it.src), put |-> {}, cut |-> NoRemovals, muts |-> 0]

\* Is thread t inside a bulk operation?
Scanning(t) == pc[t] = "scan"

\* What a change of A to store n by another thread, who inserted the keys
\* ins and removed the keys del, leaves of the bulk operation's record.
Observed(c, n, ins, del) ==
    [c EXCEPT !.was = @ \cup ElemsIn(n),
              !.stayed = @ \cap ElemsIn(n),
              !.put = @ \cup ins,
              !.cut = IF del = <<>> THEN @ ELSE Removal(@, del[1]),
              !.muts = @ + 1]

\* Another thread's set.insert(e, &guard).
MutInsert(t, e) ==
    /\ pc[Scanner] \in {"start", "scan"}
    /\ Scanning(Scanner) => cur[Scanner].muts < MaxMut
    /\ LET r == insert("A", e, "g2")
       IN  /\ map' = [map EXCEPT !["A"] = r.map]
           /\ cur' = IF Scanning(Scanner)
                     THEN [cur EXCEPT ![Scanner] =
                              Observed(@, r.map,
                                       IF r.ret THEN {Borrow(e)} ELSE {}, <<>>)]
                     ELSE cur
    /\ UNCHANGED <<last, pc, idx, old, rets, epoch, guardOf, ref, garbage, freed, hist>>

\* Another thread's set.remove(&k, &guard).
MutRemove(t, k) ==
    /\ pc[Scanner] \in {"start", "scan"}
    /\ Scanning(Scanner) => cur[Scanner].muts < MaxMut
    /\ LET r == remove("A", k, "g2")
       IN  /\ map' = [map EXCEPT !["A"] = r.map]
           /\ cur' = IF Scanning(Scanner)
                     THEN [cur EXCEPT ![Scanner] =
                              Observed(@, r.map, {},
                                       IF r.ret THEN <<k>> ELSE <<>>)]
                     ELSE cur
    /\ UNCHANGED <<last, pc, idx, old, rets, epoch, guardOf, ref, garbage, freed, hist>>

\* Another thread's set.take(&k, &guard).
MutTake(t, k) ==
    /\ pc[Scanner] \in {"start", "scan"}
    /\ Scanning(Scanner) => cur[Scanner].muts < MaxMut
    /\ LET r == take("A", k, "g2")
       IN  /\ map' = [map EXCEPT !["A"] = r.map]
           /\ cur' = IF Scanning(Scanner)
                     THEN [cur EXCEPT ![Scanner] =
                              Observed(@, r.map, {},
                                       IF is_some(r.ret) THEN <<k>> ELSE <<>>)]
                     ELSE cur
    /\ UNCHANGED <<last, pc, idx, old, rets, epoch, guardOf, ref, garbage, freed, hist>>

\* let it = set.iter(&guard);
IterCall(t) ==
    /\ pc[t] = "start"
    /\ cur' = [cur EXCEPT ![t] = Scan("iter", iter_lazy("A", "g1"), {}, {})]
    /\ pc' = [pc EXCEPT ![t] = "scan"]
    /\ UNCHANGED <<map, last, idx, old, rets, epoch, guardOf, ref, garbage, freed, hist>>

\* it.next(), Some(e) or a bin passed over: the next bin is visited.
IterStep(t) ==
    /\ Scanning(t)
    /\ cur[t].op = "iter"
    /\ \E k \in cur[t].todo :
          cur' = [cur EXCEPT ![t].todo = @ \ {k},
                             ![t].steps = @ + 1,
                             ![t].out = @ \o map_keys_next(map[cur[t].src], k)]
    /\ UNCHANGED <<map, last, pc, idx, old, rets, epoch, guardOf, ref, garbage, freed, hist>>

\* it.next() is None: the traversal is over.
IterEnd(t) ==
    /\ Scanning(t)
    /\ cur[t].op = "iter"
    /\ cur[t].todo = {}
    /\ pc' = [pc EXCEPT ![t] = "done"]
    /\ UNCHANGED <<map, last, idx, old, rets, epoch, guardOf, ref, garbage, freed, cur, hist>>

\* let b = a.clone(): the copy B begins as a new store.
CloneCall(t) ==
    /\ pc[t] = "start"
    /\ LET c == clone("A")
       IN  /\ cur' = [cur EXCEPT ![t] = Scan("clone", c, {}, {})]
           /\ map' = [map EXCEPT !["B"] = c.into]
    /\ pc' = [pc EXCEPT ![t] = "scan"]
    /\ UNCHANGED <<last, idx, old, rets, epoch, guardOf, ref, garbage, freed, hist>>

\* The store's clone visits the next bin of the source and inserts a clone
\* of the element it finds there into the copy.
CloneStep(t) ==
    /\ Scanning(t)
    /\ cur[t].op = "clone"
    /\ \E k \in cur[t].todo :
          LET r == map_keys_next(map[cur[t].src], k)
          IN  /\ cur' = [cur EXCEPT ![t].todo = @ \ {k},
                                     ![t].steps = @ + 1]
              /\ map' = IF is_some(r)
                        THEN [map EXCEPT !["B"] = map_insert(@, r[1], Unit).map]
                        ELSE map
    /\ UNCHANGED <<last, pc, idx, old, rets, epoch, guardOf, ref, garbage, freed, hist>>

\* clone returns the copy.
CloneEnd(t) ==
    /\ Scanning(t)
    /\ cur[t].op = "clone"
    /\ cur[t].todo = {}
    /\ pc' = [pc EXCEPT ![t] = "done"]
    /\ UNCHANGED <<map, last, idx, old, rets, epoch, guardOf, ref, garbage, freed, cur, hist>>

\* The caller goes on to use the source and the copy, all threads joined.
CloneUse(t) ==
    /\ pc[t] = "done"
    /\ pc' = [pc EXCEPT ![t] = "idle"]
    /\ cur' = [cur EXCEPT ![t] = NoCall]
    /\ UNCHANGED <<map, last, idx, old, rets, epoch, guardOf, ref, garbage, freed, hist>>

\* A clone of A among inserts and removes of other threads, and then
\* inserts, removes, retains and clears on the source and on the copy.
NextClone ==
    \/ \E t \in Mutators, e \in Elems : MutInsert(t, e)
    \/ \E t \in Mutators, k \in Vals : MutRemove(t, k)
    \/ CloneCall(Scanner)
    \/ CloneStep(Scanner)
    \/ CloneEnd(Scanner)
    \/ CloneUse(Scanner)
    \/ pc[Scanner] = "idle" /\ \E s \in SetIds, e \in Elems : Insert(s, e, "g1")
    \/ pc[Scanner] = "idle" /\ \E s \in SetIds, k \in Vals : Remove(s, k, "g1")
    \/ pc[Scanner] = "idle" /\ \E s \in SetIds, keep \in SUBSET Vals :
                                  Retain(s, ByKey(keep), "g1")
    \/ pc[Scanner] = "idle" /\ \E s \in SetIds : Clear(s, "g1")

SpecClone == Init /\ [][NextClone]_vars

\* set.clear(&guard)
ClearCall(t) ==
    /\ pc[t] = "start"
    /\ cur' = [cur EXCEPT ![t] = Scan("clear", clear_scan("A", "g1"), {}, {})]
    /\ pc' = [pc EXCEPT ![t] = "scan"]
    /\ UNCHANGED <<map, last, idx, old, rets, epoch, guardOf, ref, garbage, freed, hist>>

\* The store's clear empties the next bin: the element it holds at that
\* moment, if any, is removed.
ClearStep(t) ==
    /\ Scanning(t)
    /\ cur[t].op = "clear"
    /\ \E k \in cur[t].todo :
          LET r == map_remove_entry(map[cur[t].src], k)
          IN  /\ map' = [map EXCEPT ![cur[t].src] = r.map]
              /\ cur' = [cur EXCEPT ![t].todo = @ \ {k},
                                     ![t].steps = @ + 1,
                                     ![t].swept = IF is_some(r.old)
                                                  THEN Removal(@, k) ELSE @]
    /\ UNCHANGED <<last, pc, idx, old, rets, epoch, guardOf, ref, garbage, freed, hist>>

\* clear returns.
ClearEnd(t) ==
    /\ Scanning(t)
    /\ cur[t].op = "clear"
    /\ cur[t].todo = {}
    /\ pc' = [pc EXCEPT ![t] = "done"]
    /\ UNCHANGED <<map, last, idx, old, rets, epoch, guardOf, ref, garbage, freed, cur, hist>>

\* A clear of A among inserts and removes of other threads.
NextClear ==
    \/ \E t \in Mutators, e \in Elems : MutInsert(t, e)
    \/ \E t \in Mutators, k \in Vals : MutRemove(t, k)
    \/ ClearCall(Scanner)
    \/ ClearStep(Scanner)
    \/ ClearEnd(Scanner)

SpecClear == Init /\ [][NextClear]_vars

\* set.retain(f, &guard)
RetainCall(t, f) ==
    /\ pc[t] = "start"
    /\ LET r == retain_scan("A", f, "g1")
       IN  cur' = [cur EXCEPT ![t] = Scan("retain", r, f, r.pred)]
    /\ pc' = [pc EXCEPT ![t] = "scan"]
    /\ UNCHANGED <<map, last, idx, old, rets, epoch, guardOf, ref, garbage, freed, hist>>

\* The store's retain visits the next bin and tests the element it finds
\* there: an element that fails the predicate is to be removed.
RetainVisit(t) ==
    /\ Scanning(t)
    /\ cur[t].op = "retain"
    /\ is_none(cur[t].pending)
    /\ \E k \in cur[t].todo :
          LET r == map_keys_next(map[cur[t].src], k)
          IN  cur' = [cur EXCEPT ![t].todo = @ \ {k},
                                 ![t].steps = @ + 1,
                                 ![t].pending =
                                     IF is_some(r) /\ r[1] \notin cur[t].test
                                     THEN r ELSE None]
    /\ UNCHANGED <<map, last, pc, idx, old, rets, epoch, guardOf, ref, garbage, freed, hist>>

\* The store's retain removes the element it tested, if that element is
\* still the one stored: a removal that came first leaves nothing to do.
RetainRemove(t) ==
    /\ Scanning(t)
    /\ cur[t].op = "retain"
    /\ is_some(cur[t].pending)
    /\ LET e == cur[t].pending[1]
           there == map_get_key_value(map[cur[t].src], Borrow(e))
                       = Some(<<e, Unit>>)
       IN  /\ map' = IF there
                     THEN [map EXCEPT ![cur[t].src] =
                              map_remove_entry(@, Borrow(e)).map]
                     ELSE map
           /\ cur' = [cur EXCEPT ![t].pending = None,
                                  ![t].swept = IF there
                                               THEN Removal(@, Borrow(e)) ELSE @,
                                  ![t].noops = IF there
                                               THEN @ ELSE @ \cup {Borrow(e)}]
    /\ UNCHANGED <<last, pc, idx, old, rets, epoch, guardOf, ref, garbage, freed, hist>>

\* retain returns.
RetainEnd(t) ==
    /\ Scanning(t)
    /\ cur[t].op = "retain"
    /\ cur[t].todo = {}
    /\ is_none(cur[t].pending)
    /\ pc' = [pc EXCEPT ![t] = "done"]
    /\ UNCHANGED <<map, last, idx, old, rets, epoch, guardOf, ref, garbage, freed, cur, hist>>

\* A retain on A among removes and takes of other threads; the set is
\* built before the retain begins.
NextRetain ==
    \/ pc[Scanner] = "start" /\ \E t \in Mutators, e \in Elems : MutInsert(t, e)
    \/ \E t \in Mutators, k \in Vals : MutRemove(t, k)
    \/ \E t \in Mutators, k \in Vals : MutTake(t, k)
    \/ \E keep \in SUBSET Vals : RetainCall(Scanner, ByKey(keep))
    \/ RetainVisit(Scanner)
    \/ RetainRemove(Scanner)
    \/ RetainEnd(Scanner)

SpecRetain == Init /\ [][NextRetain]_vars

NextIter ==
    \/ \E t \in Mutators, e \in Elems : MutInsert(t, e)
    \/ \E t \in Mutators, k \in Vals : MutRemove(t, k)
    \/ IterCall(Scanner)
    \/ IterStep(Scanner)
    \/ IterEnd(Scanner)

SpecIter == Init /\ [][NextIter]_vars

\* ------------------------------ threads calling on one key of one set
\* Each thread makes single-key calls on set A, one after the other, all on
\* the same key.  A call is invoked, takes effect on the store by the one
\* store operation the facade calls, and returns; calls of different
\* threads overlap freely.  The record of a call keeps how many calls had
\* returned when it was invoked (inv).

\* The key the threads contend for: any one.
TheKey == CHOOSE k \in Vals : TRUE

\* The single-key operations.
PointOps == {"contains", "get", "insert", "remove", "take"}

\* The element the threads insert.
TheElem == [key |-> TheKey, inst |-> 1]

\* Calls invoked so far.
Invoked == Len(hist) + Cardinality({t \in Threads : pc[t] \in {"call", "ret"}})

\* Thread t calls set.op(..).
Invoke(t, op) ==
    /\ pc[t] = "start"
    /\ Invoked < MaxCalls
    /\ cur' = [cur EXCEPT ![t] = [op |-> op, inv |-> Len(hist), ret |-> Unit]]
    /\ pc' = [pc EXCEPT ![t] = "call"]
    /\ UNCHANGED <<map, last, idx, old, rets, epoch, guardOf, ref, garbage, freed, hist>>

\* What the facade operation op of thread t does to A and returns.
Apply(t, op) ==
    CASE op = "contains" -> [map |-> map["A"], ret |-> contains("A", TheKey, "g1")]
      [] op = "get" -> [map |-> map["A"], ret |-> get("A", TheKey, "g1")]
      [] op = "insert" -> insert("A", TheElem, "g1")
      [] op = "remove" -> remove("A", TheKey, "g1")
      [] op = "take" -> take("A", TheKey, "g1")

\* The store operation of thread t's call takes effect.
Effect(t) ==
    /\ pc[t] = "call"
    /\ LET r == Apply(t, cur[t].op)
       IN  /\ map' = [map EXCEPT !["A"] = r.map]
           /\ cur' = [cur EXCEPT ![t].ret = r.ret]
    /\ pc' = [pc EXCEPT ![t] = "ret"]
    /\ UNCHANGED <<last, idx, old, rets, epoch, guardOf, ref, garbage, freed, hist>>

\* Thread t's call returns.
Respond(t) ==
    /\ pc[t] = "ret"
    /\ hist' = Append(hist, cur[t])
    /\ cur' = [cur EXCEPT ![t] = NoCall]
    /\ pc' = [pc EXCEPT ![t] = "start"]
    /\ UNCHANGED <<map, last, idx, old, rets, epoch, guardOf, ref, garbage, freed>>

NextPoint ==
    \/ \E t \in Threads, op \in PointOps : Invoke(t, op)
    \/ \E t \in Threads : Effect(t)
    \/ \E t \in Threads : Respond(t)

SpecPoint == Init /\ [][NextPoint]_vars

\* ------------------- threads inserting, then removing, one and the same key
\* Into a set A that holds other keys only, every thread inserts its own
\* instance of the key; when all inserts have returned, every thread
\* removes the key.  HashMap::insert takes effect on the key's bin, then
\* adds to the element count.

\* Thread t's instance of the key.
Own(t) == [key |-> TheKey, inst |-> t]

\* The set is built, by one caller, before the threads begin.
RaceSetup(e) ==
    /\ \A t \in Threads : pc[t] = "start"
    /\ Borrow(e) # TheKey
    /\ Insert("A", e, "g1")

\* set.insert(own, &guard): the step on the key's bin.
RacePut(t) ==
    /\ pc[t] = "start"
    /\ LET r == map_put(map["A"], Own(t), Unit)
       IN  /\ map' = [map EXCEPT !["A"] = r.map]
           /\ old' = [old EXCEPT ![t] = r.old]
           /\ pc' = [pc EXCEPT ![t] = IF is_none(r.old) THEN "count" ELSE "ret"]
    /\ UNCHANGED <<last, idx, rets, epoch, guardOf, ref, garbage, freed, cur, hist>>

\* set.insert(own, &guard): the addition to the element count.
RaceAddCount(t) ==
    /\ pc[t] = "count"
    /\ map' = [map EXCEPT !["A"] = map_add_count(@, 1)]
    /\ pc' = [pc EXCEPT ![t] = "ret"]
    /\ UNCHANGED <<last, idx, old, rets, epoch, guardOf, ref, garbage, freed, cur, hist>>

\* set.insert returns old.is_none().
RaceInserted(t) ==
    /\ pc[t] = "ret"
    /\ rets' = [rets EXCEPT ![t] = Append(@, insert_returns(old[t]))]
    /\ pc' = [pc EXCEPT ![t] = "wait"]
    /\ UNCHANGED <<map, last, idx, old, epoch, guardOf, ref, garbage, freed, cur, hist>>

\* set.remove(&key, &guard), once every insert has returned.
RaceRemove(t) ==
    /\ pc[t] = "wait"
    /\ \A u \in Threads : pc[u] \in {"wait", "removed", "done"}
    /\ LET r == remove("A", TheKey, "g1")
       IN  /\ map' = [map EXCEPT !["A"] = r.map]
           /\ cur' = [cur EXCEPT ![t] = [op |-> "remove", ret |-> r.ret]]
    /\ pc' = [pc EXCEPT ![t] = "removed"]
    /\ UNCHANGED <<last, idx, old, rets, epoch, guardOf, ref, garbage, freed, hist>>

\* set.remove returns.
RaceRemoved(t) ==
    /\ pc[t] = "removed"
    /\ rets' = [rets EXCEPT ![t] = Append(@, cur[t].ret)]
    /\ pc' = [pc EXCEPT ![t] = "done"]
    /\ UNCHANGED <<map, last, idx, old, epoch, guardOf, ref, garbage, freed, cur, hist>>

NextRace ==
    \/ \E e \in Elems : RaceSetup(e)
    \/ \E t \in Threads : RacePut(t)
    \/ \E t \in Threads : RaceAddCount(t)
    \/ \E t \in Threads : RaceInserted(t)
    \/ \E t \in Threads : RaceRemove(t)
    \/ \E t \in Threads : RaceRemoved(t)

SpecRace == Init /\ [][NextRace]_vars

\* ------------------------------------- threads and deferred reclamation
\* Threads pin and release guards and, through a guard they hold, insert,
\* look up, remove, take, retain and clear on the shared set A.  A removal
\* retires the stored element at the current tick, and the clock ticks once
\* per removed element; the store reclaims a retired element only when it
\* is older than every live pin.

\* The keys the threads of the reclamation specification work with.
EpochKeys == 1 .. (MaxVal - 2)

\* Every element instance that may ever be allocated: a key is allocated
\* anew only after a removal of its previous instance.
Nodes == {[key |-> k, inst |-> i] : k \in EpochKeys, i \in 1 .. MaxEpoch + 1}

\* The instance a new insert of key k allocates: one never allocated before.
Fresh(k) ==
    [key |-> k,
     inst |-> 1 + Cardinality({x \in garbage \cup freed : x.node.key = k})]

\* A removal's deferred destruction of element e by thread t.
Retired(e, t) == [node |-> e, at |-> epoch]

\* The oldest-pin watermark: may retired element x be reclaimed now?
Reclaimable(x) ==
    \A t \in Threads :
        (is_some(guardOf[t]) /\ guardOf[t][1].protected) =>
            x.at < guardOf[t][1].epoch

\* let guard = set.guard();
GuardE(t) ==
    /\ guardOf[t] = None
    /\ guardOf' = [guardOf EXCEPT ![t] = Some(guard("A"))]
    /\ UNCHANGED <<map, last, pc, idx, old, rets, epoch, ref, garbage, freed, cur, hist>>

\* drop(guard): the references borrowed through it end with it.
ReleaseE(t) ==
    /\ is_some(guardOf[t])
    /\ guardOf' = [guardOf EXCEPT ![t] = None]
    /\ ref' = [ref EXCEPT ![t] = None]
    /\ UNCHANGED <<map, last, pc, idx, old, rets, epoch, garbage, freed, cur, hist>>

\* set.insert(value, &guard)
InsertE(t, k) ==
    /\ is_some(guardOf[t])
    /\ map' = [map EXCEPT !["A"] = insert("A", Fresh(k), guardOf[t][1]).map]
    /\ UNCHANGED <<last, conc>>

\* let r = set.get(&k, &guard);
GetE(t, k) ==
    /\ is_some(guardOf[t])
    /\ ref' = [ref EXCEPT ![t] = get("A", k, guardOf[t][1])]
    /\ UNCHANGED <<map, last, pc, idx, old, rets, epoch, guardOf, garbage, freed, cur, hist>>

\* set.remove(&k, &guard)
RemoveE(t, k) ==
    /\ is_some(guardOf[t])
    /\ epoch <= MaxEpoch
    /\ LET r == remove("A", k, guardOf[t][1])
       IN  /\ map' = [map EXCEPT !["A"] = r.map]
           /\ garbage' = IF r.ret
                         THEN garbage \cup {Retired(map["A"].tab[k], t)}
                         ELSE garbage
           /\ epoch' = IF r.ret THEN epoch + 1 ELSE epoch
    /\ UNCHANGED <<last, pc, idx, old, rets, guardOf, ref, freed, cur, hist>>

\* let r = set.take(&k, &guard);
TakeE(t, k) ==
    /\ is_some(guardOf[t])
    /\ epoch <= MaxEpoch
    /\ LET r == take("A", k, guardOf[t][1])
       IN  /\ map' = [map EXCEPT !["A"] = r.map]
           /\ ref' = [ref EXCEPT ![t] = r.ret]
           /\ garbage' = IF is_some(r.ret)
                         THEN garbage \cup {Retired(map["A"].tab[k], t)}
                         ELSE garbage
           /\ epoch' = IF is_some(r.ret) THEN epoch + 1 ELSE epoch
    /\ UNCHANGED <<last, pc, idx, old, rets, guardOf, freed, cur, hist>>

\* The deferred destructions of a bulk removal by thread t that visits the
\* elements it removes in order p: one tick each.
RetiredAll(p, t) ==
    {[node |-> p[i], at |-> epoch + i - 1] : i \in 1 .. Len(p)}

\* set.retain(|e| keep(e), &guard): each removed element is retired, in
\* the order the scan meets them.
RetainE(t, keep) ==
    /\ is_some(guardOf[t])
    /\ LET m == retain("A", {e \in Nodes : e.key \in keep}, guardOf[t][1])
           gone == Stored("A") \ {m.tab[k] : k \in DOMAIN m.tab}
       IN  /\ gone # {}
           /\ epoch + Cardinality(gone) - 1 <= MaxEpoch
           /\ map' = [map EXCEPT !["A"] = m]
           /\ \E p \in Perms(gone) :
                 garbage' = garbage \cup RetiredAll(p, t)
           /\ epoch' = epoch + Cardinality(gone)
    /\ UNCHANGED <<last, pc, idx, old, rets, guardOf, ref, freed, cur, hist>>

\* set.clear(&guard): each removed element is retired.
ClearE(t) ==
    /\ is_some(guardOf[t])
    /\ LET gone == Stored("A")
       IN  /\ gone # {}
           /\ epoch + Cardinality(gone) - 1 <= MaxEpoch
           /\ map' = [map EXCEPT !["A"] = clear("A", guardOf[t][1])]
           /\ \E p \in Perms(gone) :
                 garbage' = garbage \cup RetiredAll(p, t)
           /\ epoch' = epoch + Cardinality(gone)
    /\ UNCHANGED <<last, pc, idx, old, rets, guardOf, ref, freed, cur, hist>>

\* The store frees one retired element that no live pin can still observe.
Reclaim ==
    /\ \E x \in garbage :
          /\ Reclaimable(x)
          /\ garbage' = garbage \ {x}
          /\ freed' = freed \cup {x}
    /\ UNCHANGED <<map, last, pc, idx, old, rets, epoch, guardOf, ref, cur, hist>>

NextEpoch ==
    \/ \E t \in Threads : GuardE(t)
    \/ \E t \in Threads : ReleaseE(t)
    \/ \E t \in Threads, k \in EpochKeys : InsertE(t, k)
    \/ \E t \in Threads, k \in EpochKeys : GetE(t, k)
    \/ \E t \in Threads, k \in EpochKeys : RemoveE(t, k)
    \/ \E t \in Threads, k \in EpochKeys : TakeE(t, k)
    \/ \E t \in Threads, keep \in SUBSET EpochKeys : RetainE(t, keep)
    \/ \E t \in Threads : ClearE(t)
    \/ Reclaim

SpecEpoch == Init /\ [][NextEpoch]_vars

\* ------------------------------- threads beside one that keeps its guard
\* Thread Holder pins guards, one inside the other, and keeps them as long
\* as it likes.  Every other thread pins a guard, makes calls on set A
\* through it (insert, remove and contains on one key, and iter) and drops
\* the guard.  The store reclaims when it chooses to.
Holder == 1
Workers == Threads \ {Holder}

\* Pinning that waits until no other thread holds a guard, as a lock would.
pin_waits(t) == \A u \in Threads \ {t} : guardOf[u] = None

\* HashMap::guard: pinning waits for nothing.
pin_ready(t) == TRUE

\* The calls a worker makes.
WorkOps == {"insert", "remove", "contains", "iter"}

\* Calls begun so far.
Worked ==
    Len(hist) + Cardinality({t \in Threads : pc[t] \in {"call", "scan", "ret"}})

\* let inner = set.guard(); while an outer guard is held.
HoldNest(t) ==
    /\ is_some(guardOf[t])
    /\ Len(guardOf[t]) < MaxNest
    /\ guardOf' = [guardOf EXCEPT ![t] = Append(@, guard("A"))]
    /\ UNCHANGED <<map, last, pc, idx, old, rets, epoch, ref, garbage, freed, cur, hist>>

\* drop(guard) of the innermost guard held.
HoldDrop(t) ==
    /\ is_some(guardOf[t])
    /\ guardOf' = [guardOf EXCEPT ![t] = SubSeq(@, 1, Len(@) - 1)]
    /\ UNCHANGED <<map, last, pc, idx, old, rets, epoch, ref, garbage, freed, cur, hist>>

\* let guard = set.guard();
WPin(t) ==
    /\ pc[t] = "start"
    /\ pin_ready(t)
    /\ guardOf' = [guardOf EXCEPT ![t] = Some(guard("A"))]
    /\ pc' = [pc EXCEPT ![t] = "pinned"]
    /\ UNCHANGED <<map, last, idx, old, rets, epoch, ref, garbage, freed, cur, hist>>

\* The worker calls set.op(.., &guard).
WCall(t, op) ==
    /\ pc[t] = "pinned"
    /\ Worked < MaxWork
    /\ cur' = [cur EXCEPT ![t] =
                  IF op = "iter"
                  THEN Scan("iter", iter_lazy("A", guardOf[t][1]), {}, {})
                  ELSE [op |-> op, ret |-> None, out |-> <<>>]]
    /\ pc' = [pc EXCEPT ![t] = IF op = "iter" THEN "scan" ELSE "call"]
    /\ UNCHANGED <<map, last, idx, old, rets, epoch, guardOf, ref, garbage, freed, hist>>

\* The store operation of the call takes effect, and its result is there
\* (ret is Some(..)) for the call to return; a removal retires the element
\* removed.
WEffect(t) ==
    /\ pc[t] = "call"
    /\ LET g == guardOf[t][1]
           r == CASE cur[t].op = "insert" -> insert("A", Fresh(TheKey), g)
                  [] cur[t].op = "remove" -> remove("A", TheKey, g)
                  [] cur[t].op = "contains" ->
                       [map |-> map["A"], ret |-> contains("A", TheKey, g)]
           retired == cur[t].op = "remove" /\ r.ret
       IN  /\ map' = [map EXCEPT !["A"] = r.map]
           /\ cur' = [cur EXCEPT ![t].ret = Some(r.ret)]
           /\ garbage' = IF retired
                         THEN garbage \cup {Retired(map["A"].tab[TheKey], t)}
                         ELSE garbage
           /\ epoch' = IF retired THEN epoch + 1 ELSE epoch
    /\ pc' = [pc EXCEPT ![t] = "ret"]
    /\ UNCHANGED <<last, idx, old, rets, guardOf, ref, freed, hist>>

\* it.next() is None: what was yielded (out) is the result.
WIterEnd(t) ==
    /\ Scanning(t)
    /\ cur[t].op = "iter"
    /\ cur[t].todo = {}
    /\ cur' = [cur EXCEPT ![t] =
                  [op |-> "iter", ret |-> None, out |-> cur[t].out]]
    /\ pc' = [pc EXCEPT ![t] = "ret"]
    /\ UNCHANGED <<map, last, idx, old, rets, epoch, guardOf, ref, garbage, freed, hist>>

\* The call returns.
WReturn(t) ==
    /\ pc[t] = "ret"
    /\ hist' = Append(hist, cur[t])
    /\ cur' = [cur EXCEPT ![t] = NoCall]
    /\ pc' = [pc EXCEPT ![t] = "pinned"]
    /\ UNCHANGED <<map, last, idx, old, rets, epoch, guardOf, ref, garbage, freed>>

\* drop(guard)
WUnpin(t) ==
    /\ pc[t] = "pinned"
    /\ guardOf' = [guardOf EXCEPT ![t] = None]
    /\ pc' = [pc EXCEPT ![t] = "done"]
    /\ UNCHANGED <<map, last, idx, old, rets, epoch, ref, garbage, freed, cur, hist>>

\* The steps of worker t.
Work(t) ==
    \/ WPin(t)
    \/ \E op \in WorkOps : WCall(t, op)
    \/ WEffect(t)
    \/ IterStep(t)
    \/ WIterEnd(t)
    \/ WReturn(t)
    \/ WUnpin(t)

NextGuard ==
    \/ GuardE(Holder)
    \/ HoldNest(Holder)
    \/ HoldDrop(Holder)
    \/ \E t \in Workers : WPin(t)
    \/ \E t \in Workers, op \in WorkOps : WCall(t, op)
    \/ \E t \in Workers : WEffect(t)
    \/ \E t \in Workers : IterStep(t)
    \/ \E t \in Workers : WIterEnd(t)
    \/ \E t \in Workers : WReturn(t)
    \/ \E t \in Workers : WUnpin(t)
    \/ Reclaim

\* Every worker is scheduled again and again; the holder and the store's
\* reclamation need not be.
SpecGuard ==
    Init /\ [][NextGuard]_vars /\ \A t \in Workers : WF_vars(Work(t))

\* ----------------------------------------------------------------- claims
\* How often a traversal yields an element equal to key k.
Yields(it, k) == Cardinality({i \in 1 .. Len(it) : Borrow(it[i]) = k})

\* C1: with no interference, insert(x) returns true iff no element equal to
\* x was present; afterwards the set contains exactly one x; len() grows by
\* one exactly when the call returned true; and an insert(x) that directly
\* follows an insert(x) on the same set returns false.
C1_InsertIfAbsent ==
    last.op = "insert" =>
        LET s == last.self
            x == last.key
            before == last.pre[s]
        IN  /\ last.ret = ~map_contains_key(before, x)
            /\ contains(s, x, "g1")
            /\ \A it \in iter(s, "g1") : Yields(it, x) = 1
            /\ len(s) = map_len(before) + (IF last.ret THEN 1 ELSE 0)
            /\ last.again => (~last.ret /\ len(s) = map_len(before))

\* C1 witness: the second of two inserts of an equal element in sequence
\* has returned false, and the set holds the instance stored first.
C1_SecondInsertReturned ==
    /\ last.op = "insert"
    /\ last.again
    /\ ~last.ret
    /\ get(last.self, last.key, "g1") # Some(last.arg)
    /\ len(last.self) = 1

\* C2: with no interference, remove(x) returns true iff x was present;
\* afterwards contains(x) is false and every other element's membership is
\* as before; remove(x) of an absent x returns false and leaves the set
\* (membership and len()) exactly as it was.
C2_RemoveContract ==
    last.op = "remove" =>
        LET s == last.self
            x == last.key
            before == last.pre[s]
        IN  /\ last.ret = map_contains_key(before, x)
            /\ ~contains(s, x, "g1")
            /\ \A k \in Vals \ {x} :
                  /\ contains(s, k, "g1") = map_contains_key(before, k)
                  /\ get(s, k, "g1") =
                       (IF map_contains_key(before, k)
                        THEN Some(map_get_key_value(before, k)[1][1])
                        ELSE None)
            /\ ~map_contains_key(before, x) =>
                  (~last.ret /\ map[s] = before /\ len(s) = map_len(before))

\* C2 witness: a remove of a present element has returned true from a set
\* that held other elements too.
C2_RemovedOneOfSeveral ==
    /\ last.op = "remove"
    /\ last.ret
    /\ len(last.self) >= 2
    /\ map_len(last.pre[last.self]) = len(last.self) + 1

\* C3: with no interference, take(x) returns Some(the stored element equal
\* to x) iff x was present, and removes it: contains(x) is false afterwards
\* and a take(x) that directly follows returns None; take(x) of an absent x
\* returns None and leaves the set unchanged.  The result is always an
\* Option, never a failure.
C3_TakeContract ==
    last.op = "take" =>
        LET s == last.self
            x == last.key
            before == last.pre[s]
            stored == map_get_key_value(before, x)
        IN  /\ last.ret \in {None} \cup {Some(e) : e \in Elems}
            /\ is_some(last.ret) = map_contains_key(before, x)
            /\ is_some(last.ret) =>
                  (last.ret = Some(stored[1][1]) /\ Borrow(last.ret[1]) = x)
            /\ ~contains(s, x, "g1")
            /\ last.again => last.ret = None
            /\ ~map_contains_key(before, x) =>
                  (last.ret = None /\ map[s] = before)

\* C3 witness: take has returned the stored instance, which is not the
\* first instance of its key, and the set no longer contains the key.
C3_TookStoredInstance ==
    /\ last.op = "take"
    /\ is_some(last.ret)
    /\ last.ret[1].inst = 2
    /\ ~contains(last.self, last.key, "g1")

\* The probes of a comparison, in order, and the elements its traversal
\* yielded, in order.
ProbesOf(log) == SelectSeq(log, LAMBDA e : e.ev = "probe")
YieldsOf(log) == SelectSeq(log, LAMBDA e : e.ev = "next")

\* The keys present in store m.
KeysIn(m) == {k \in Keys : map_contains_key(m, k)}

\* C6: with no mutation, is_subset(A, B) returns true iff every element of
\* A is an element of B (so always when A is empty), and it returns false
\* as soon as the traversal of A meets an element absent from B: the probe
\* that misses is the last one, every earlier probe hit, and no element of
\* A is probed twice.
C6_SubsetContract ==
    last.op = "is_subset" =>
        LET A == last.pre[last.self]
            B == last.pre[last.other]
            probes == ProbesOf(last.log)
        IN  /\ last.ret = (KeysIn(A) \subseteq KeysIn(B))
            /\ map_len(A) = 0 => last.ret
            /\ \A i \in 1 .. Len(probes) :
                  /\ probes[i].key \in KeysIn(A)
                  /\ (probes[i].key \notin KeysIn(B)) =
                        (i = Len(probes) /\ ~last.ret)
                  /\ \A j \in 1 .. Len(probes) :
                        probes[i].key = probes[j].key => i = j
            /\ last.ret => {probes[i].key : i \in 1 .. Len(probes)} = KeysIn(A)
            /\ map = last.pre

\* C6 witness: is_subset has returned false after probes that hit, leaving
\* part of A untraversed.
C6_StoppedAtFirstAbsent ==
    /\ last.op = "is_subset"
    /\ ~last.ret
    /\ Len(ProbesOf(last.log)) = 2
    /\ len(last.self) = 3

\* C7: with no mutation, is_subset(A, B) and is_subset(B, A) both hold iff
\* guarded_eq(A, B) returns true; two sets of equal len() and different
\* elements are reported unequal, by the pass that follows the length check.
C7_EqIffMutualSubset ==
    last.op = "guarded_eq" =>
        LET A == last.self
            B == last.other
        IN  /\ \A ab \in is_subset(A, B, "g1", "g2") :
                 \A ba \in is_subset(B, A, "g2", "g1") :
                    last.ret = (ab.ret /\ ba.ret)
            /\ (len(A) = len(B) /\ KeysIn(map[A]) # KeysIn(map[B])) =>
                  (~last.ret /\ Len(ProbesOf(last.log)) >= 1)

\* C7 witness: guarded_eq has returned false for two sets of equal length
\* and different elements, after probing more than one element.
C7_EqualLenDifferentElements ==
    /\ last.op = "guarded_eq"
    /\ len(last.self) = len(last.other)
    /\ len(last.self) >= 2
    /\ ~last.ret
    /\ Len(ProbesOf(last.log)) >= 2

\* C8: is_superset(A, B, gA, gB) returns what is_subset(B, A, gB, gA)
\* returns: it traverses B under gB and probes A under gA, and is true iff
\* A contains every element of B.
C8_SupersetIsSwappedSubset ==
    last.op = "is_superset" =>
        LET A == last.self
            B == last.other
            gA == last.our_guard
            gB == last.their_guard
        IN  /\ last.ret = (KeysIn(map[B]) \subseteq KeysIn(map[A]))
            /\ \A r \in is_subset(B, A, gB, gA) : r.ret = last.ret
            /\ \A i \in 1 .. Len(last.log) :
                  /\ last.log[i].ev = "next" =>
                        (last.log[i].set = B /\ last.log[i].guard = gB)
                  /\ last.log[i].ev = "probe" =>
                        (last.log[i].set = A /\ last.log[i].guard = gA)
            /\ last.ret =>
                  {e.key : e \in {last.log[i] : i \in 1 .. Len(last.log)}}
                     = KeysIn(map[B])

\* C8 witness: is_superset(A, B) has returned true for a B of two
\* elements and a strictly larger A, having probed A.
C8_ProperSuperset ==
    /\ last.op = "is_superset"
    /\ last.self # last.other
    /\ last.ret
    /\ len(last.other) = 2
    /\ len(last.self) = 3
    /\ Len(ProbesOf(last.log)) = 2

\* C9: with no mutation, is_disjoint(A, B) returns true iff no element is
\* in both A and B (always when either is empty), so is_disjoint(A, B) and
\* is_disjoint(B, A) agree, although only the first operand is traversed
\* and only the second is probed.
C9_DisjointContract ==
    last.op = "is_disjoint" =>
        LET A == last.self
            B == last.other
        IN  /\ last.ret = (KeysIn(map[A]) \cap KeysIn(map[B]) = {})
            /\ (len(A) = 0 \/ len(B) = 0) => last.ret
            /\ \A r \in is_disjoint(B, A, last.their_guard, last.our_guard) :
                  r.ret = last.ret
            /\ \A i \in 1 .. Len(last.log) :
                  /\ last.log[i].ev = "next" =>
                        (last.log[i].set = A /\ last.log[i].guard = last.our_guard)
                  /\ last.log[i].ev = "probe" =>
                        (last.log[i].set = B /\ last.log[i].guard = last.their_guard)

\* C9 witness: is_disjoint has returned true for two non-empty sets of
\* different sizes, every element of the first probed in the second.
C9_DisjointNonEmpty ==
    /\ last.op = "is_disjoint"
    /\ last.ret
    /\ len(last.self) = 2
    /\ len(last.other) = 1
    /\ Len(ProbesOf(last.log)) = 2

\* C10: when len(A) # len(B) as guarded_eq reads them, guarded_eq returns
\* false at once: it traverses nothing of A and probes nothing in B.
C10_LengthShortCircuit ==
    (last.op = "guarded_eq"
        /\ map_len(last.pre[last.self]) # map_len(last.pre[last.other])) =>
        /\ ~last.ret
        /\ YieldsOf(last.log) = <<>>
        /\ ProbesOf(last.log) = <<>>

\* C10 witness: guarded_eq has returned false without a probe for a
\* non-empty A whose elements are all in a larger B.
C10_ShortCircuitOnSubset ==
    /\ last.op = "guarded_eq"
    /\ len(last.self) = 2
    /\ len(last.other) = 3
    /\ KeysIn(map[last.self]) \subseteq KeysIn(map[last.other])
    /\ ~last.ret
    /\ last.log = <<>>

\* The predicate e % 2 == 0.
Even == {e \in Elems : e.key % 2 = 0}

\* C11: with no interference, after retain(p) the set holds exactly the
\* elements it held before for which p is true: those with p false are
\* removed, those with p true are kept as stored, none is added, len() is
\* the number of elements kept, and the other set is untouched.
C11_RetainContract ==
    last.op = "retain" =>
        LET s == last.self
            S == ElemsIn(last.pre[s])
            kept == {e \in S : e \in last.pred}
        IN  /\ ElemsIn(map[s]) = kept
            /\ \A k \in Keys :
                  contains(s, k, "g1") = (\E e \in kept : Borrow(e) = k)
            /\ len(s) = Cardinality(kept)
            /\ \A o \in SetIds \ {s} : map[o] = last.pre[o]

\* C11 witness: retain(e % 2 == 0) has removed the odd elements and kept
\* the even ones of a set that held both.
C11_RetainedEven ==
    /\ last.op = "retain"
    /\ last.pred = Even
    /\ map_len(last.pre[last.self]) = MaxVal
    /\ KeysIn(map[last.self]) = {k \in Vals : k % 2 = 0}
    /\ len(last.self) = MaxVal \div 2

RECURSIVE InsertEach(_, _, _)
\* The store after insert(items[i]), insert(items[i + 1]), ... in sequence
\* order on store m, as HashSet::insert leaves it.
InsertEach(m, items, i) ==
    IF i > Len(items) THEN m
    ELSE InsertEach(map_insert(m, items[i], Unit).map, items, i + 1)

\* The first item of the sequence equal to key k.
FirstOf(items, k) ==
    items[CHOOSE i \in 1 .. Len(items) :
              /\ Borrow(items[i]) = k
              /\ \A j \in 1 .. i - 1 : Borrow(items[j]) # k]

\* C15: the set built by from_iter from a sequence of items, and a set
\* after extend with the sequence, is the set that insert of the items one
\* by one in sequence order gives: its members are the earlier members and
\* the items, each once; a duplicate item changes nothing (the element
\* stored first stays); len() is the number of members.
C15_BulkLoadIsRepeatedInsert ==
    last.op \in {"extend", "from_iter"} =>
        LET s == last.self
            items == last.pred
            base == IF last.op = "extend" THEN last.pre[s] ELSE new
            given == {Borrow(items[i]) : i \in 1 .. Len(items)}
        IN  /\ map[s] = InsertEach(base, items, 1)
            /\ KeysIn(map[s]) = KeysIn(base) \cup given
            /\ len(s) = Cardinality(KeysIn(base) \cup given)
            /\ \A it \in iter(s, "g1") : \A k \in KeysIn(map[s]) :
                  Yields(it, k) = 1
            /\ \A k \in KeysIn(map[s]) :
                  get(s, k, "g1") =
                     (IF k \in KeysIn(base)
                      THEN Some(map_get_key_value(base, k)[1][1])
                      ELSE Some(FirstOf(items, k)))

\* C15 witness: extend of a non-empty set with two equal items of different
\* instances has added one element, the first of the two.
C15_ExtendedWithDuplicates ==
    /\ last.op = "extend"
    /\ Len(last.pred) = 2
    /\ Borrow(last.pred[1]) = Borrow(last.pred[2])
    /\ last.pred[1] # last.pred[2]
    /\ map_len(last.pre[last.self]) >= 1
    /\ len(last.self) = map_len(last.pre[last.self]) + 1
    /\ get(last.self, Borrow(last.pred[1]), "g1") = Some(last.pred[1])

\* The operations that only read the sets they are given.
ReadOnly ==
    {"contains", "get", "len", "is_empty", "iter", "is_disjoint",
     "is_subset", "is_superset", "guarded_eq", "eq"}

\* C20: a read-only operation leaves every set as it was (elements and
\* len()), whatever it returns and whether or not it returns early; and in
\* every quiescent state get(x) is Some(an element equal to x) exactly when
\* contains(x) is true, what a get or contains call returns included.
C20_ReadOnlyFrame ==
    /\ last.op \in ReadOnly =>
          /\ map = last.pre
          /\ \A s \in SetIds :
                /\ KeysIn(map[s]) = KeysIn(last.pre[s])
                /\ len(s) = map_len(last.pre[s])
    /\ \A s \in SetIds, x \in Vals :
          /\ is_some(get(s, x, "g1")) = contains(s, x, "g1")
          /\ is_some(get(s, x, "g1")) => Borrow(get(s, x, "g1")[1]) = x
    /\ last.op = "get" =>
          is_some(last.ret) = contains(last.self, last.key, "g1")
    /\ last.op = "contains" =>
          last.ret = is_some(get(last.self, last.key, "g1"))

\* C20 witness: is_disjoint has returned false at its first probe, leaving
\* most of a set of several elements untraversed, and both sets are as they
\* were; get finds the element the probe hit.
C20_EarlyReturnLeftSets ==
    /\ last.op = "is_disjoint"
    /\ last.self # last.other
    /\ ~last.ret
    /\ Len(ProbesOf(last.log)) = 1
    /\ len(last.self) = MaxVal
    /\ map = last.pre
    /\ is_some(get(last.other, ProbesOf(last.log)[1].key, "g1"))

\* The elements a sequence holds.
Range(q) == {q[i] : i \in 1 .. Len(q)}

\* C12: an iter(g) traversal among inserts and removes of other threads
\* ends after at most one step per bin; it yields no element twice and no
\* two elements of one key; every element it yields was in the set at some
\* moment of the traversal; and when it ends it has yielded every element
\* that was in the set at every moment of the traversal.
C12_IterWeaklyConsistent ==
    (pc[Scanner] \in {"scan", "done"} /\ cur[Scanner].op = "iter") =>
        LET c == cur[Scanner]
        IN  /\ c.steps + Cardinality(c.todo) = Cardinality(map_bins)
            /\ Len(c.out) <= c.steps
            /\ \A i, j \in 1 .. Len(c.out) :
                  Borrow(c.out[i]) = Borrow(c.out[j]) => i = j
            /\ Range(c.out) \subseteq c.was
            /\ pc[Scanner] = "done" =>
                  (c.todo = {} /\ c.stayed \subseteq Range(c.out))

\* C12 witness: a traversal has ended that yielded an element removed
\* since, missed an element inserted meanwhile, and yielded an element that
\* stayed throughout.
C12_TraversalAmongMutation ==
    /\ pc[Scanner] = "done"
    /\ cur[Scanner].op = "iter"
    /\ cur[Scanner].muts = MaxMut
    /\ Range(cur[Scanner].out) \ Stored("A") # {}
    /\ Stored("A") \ Range(cur[Scanner].out) # {}
    /\ cur[Scanner].stayed # {}

\* The operations that change the set they are called on.
Mutating == {"insert", "remove", "take", "retain", "clear", "extend"}

\* C16: while a clone of A runs, every element of the copy B was in A at
\* some moment of the clone; when the clone ends with A not changed
\* meanwhile, B has exactly A's elements and A's len(); and afterwards an
\* insert, remove, retain or clear on either of the two leaves the other's
\* elements and len() as they were.
C16_CloneIndependent ==
    /\ (pc[Scanner] \in {"scan", "done"} /\ cur[Scanner].op = "clone") =>
          LET c == cur[Scanner]
          IN  /\ Stored("B") \subseteq c.was
              /\ (pc[Scanner] = "done" /\ c.muts = 0) =>
                    /\ Stored("B") = ElemsIn(c.begun)
                    /\ Stored("B") = Stored("A")
                    /\ len("B") = len("A")
                    /\ len("B") = Cardinality(ElemsIn(c.begun))
    /\ (pc[Scanner] = "idle" /\ last.op \in Mutating) =>
          \A o \in SetIds \ {last.self} :
              /\ map[o] = last.pre[o]
              /\ len(o) = map_len(last.pre[o])

\* C16 witness: after a clone of a set of several elements, an element was
\* removed from the copy and the source still holds it.
C16_CopyChangedSourceKept ==
    /\ pc[Scanner] = "idle"
    /\ last.op = "remove"
    /\ last.self = "B"
    /\ last.ret
    /\ last.pre["B"].tab = last.pre["A"].tab
    /\ len("A") = MaxVal
    /\ contains("A", last.key, "g1")
    /\ ~contains("B", last.key, "g1")

\* C17: when clear(g) returns and no other thread changed the set
\* meanwhile, the set is empty: is_empty() is true, len() is 0 and
\* contains(x) is false for every x.  When other threads inserted
\* meanwhile, every element that was in the set as the clear began, and
\* whose key no other thread inserted since, is absent.
C17_ClearContract ==
    (pc[Scanner] = "done" /\ cur[Scanner].op = "clear") =>
        LET c == cur[Scanner]
        IN  /\ c.muts = 0 =>
                  /\ is_empty("A")
                  /\ len("A") = 0
                  /\ \A x \in Vals : ~contains("A", x, "g1")
            /\ \A e \in ElemsIn(c.begun) :
                  Borrow(e) \notin c.put => ~contains("A", Borrow(e), "g1")
            /\ Stored("A") \subseteq {e \in c.was : Borrow(e) \in c.put}

\* C17 witness: a clear has returned during which other threads inserted
\* two elements, one of which survived and one of which was cleared, and
\* the elements the set held as the clear began are gone.
C17_InsertSurvivedAndNot ==
    /\ pc[Scanner] = "done"
    /\ cur[Scanner].op = "clear"
    /\ ElemsIn(cur[Scanner].begun) # {}
    /\ Cardinality(cur[Scanner].put) = 2
    /\ Cardinality(KeysIn(map["A"])) = 1
    /\ KeysIn(map["A"]) \subseteq cur[Scanner].put
    /\ \A k \in KeysIn(cur[Scanner].begun) \ cur[Scanner].put :
          ~contains("A", k, "g1")

RECURSIVE Total(_, _)
\* The removals counted in b for the keys of K.
Total(b, K) ==
    IF K = {} THEN 0
    ELSE LET k == CHOOSE x \in K : TRUE IN b[k] + Total(b, K \ {k})

\* C18: when retain(p) runs among remove and take calls of other threads
\* (and no inserts), no key is removed twice, by whomever; and when retain
\* returns every element with p false is absent and was removed exactly
\* once, len() has dropped by one for each removal, and every element with
\* p true that no other thread removed is still there.
C18_RetainRacingRemove ==
    (pc[Scanner] \in {"scan", "done"} /\ cur[Scanner].op = "retain") =>
        LET c == cur[Scanner]
            removals == [k \in Vals |-> c.cut[k] + c.swept[k]]
            S == ElemsIn(c.begun)
        IN  /\ \A k \in Vals : removals[k] <= 1
            /\ len("A") = map_len(c.begun) - Total(removals, Vals)
            /\ len("A") = Cardinality(Stored("A"))
            /\ pc[Scanner] = "done" =>
                  /\ \A x \in S :
                        x \notin c.pred =>
                           /\ ~contains("A", Borrow(x), "g1")
                           /\ removals[Borrow(x)] = 1
                  /\ \A x \in S :
                        (x \in c.pred /\ c.cut[Borrow(x)] = 0) =>
                           x \in Stored("A")
                  /\ Stored("A") \subseteq {x \in S : x \in c.pred}

\* C18 witness: a retain has returned that came to remove an element
\* another thread had removed in between, removed another element itself,
\* and kept an element.
C18_RemovalRaced ==
    /\ pc[Scanner] = "done"
    /\ cur[Scanner].op = "retain"
    /\ cur[Scanner].noops # {}
    /\ \A k \in cur[Scanner].noops : cur[Scanner].cut[k] = 1
    /\ cur[Scanner].swept # NoRemovals
    /\ Stored("A") # {}

\* The calls to be put in one order: those that returned, with the position
\* of their return (done), and those whose result is fixed though they
\* have not returned (done is 0).
Settled ==
    [i \in 1 .. Len(hist) |-> [call |-> hist[i], done |-> i]]
    \o LET P == {t \in Threads : pc[t] = "ret"}
           RECURSIVE Pending(_)
           Pending(T) ==
               IF T = {} THEN <<>>
               ELSE LET t == CHOOSE x \in T : TRUE
                    IN  <<[call |-> cur[t], done |-> 0]>> \o Pending(T \ {t})
       IN  Pending(P)

\* Call a had returned when call b was invoked.
Precedes(a, b) == a.done # 0 /\ a.done <= b.call.inv

RECURSIVE Legal(_, _, _, _)
\* Do the calls c, taken in the order p from the i-th on, return what a set
\* holding st (no element, or one element of the key) returns to calls made
\* one at a time?
Legal(c, p, i, st) ==
    IF i > Len(p) THEN TRUE
    ELSE LET x == c[p[i]].call
             expected ==
                 CASE x.op = "contains" -> is_some(st)
                   [] x.op = "get" -> st
                   [] x.op = "insert" -> is_none(st)
                   [] x.op = "remove" -> is_some(st)
                   [] x.op = "take" -> st
             after ==
                 CASE x.op \in {"contains", "get"} -> st
                   [] x.op = "insert" ->
                        IF is_none(st) THEN Some(TheElem) ELSE st
                   [] x.op \in {"remove", "take"} -> None
         IN  x.ret = expected /\ Legal(c, p, i + 1, after)

\* C13: in every interleaving the calls on a key can be put in one order
\* that keeps each call after the calls that had returned when it was
\* invoked, and in which every call returns what the set returns to the
\* calls made one at a time in that order; in particular contains returns
\* TRUE or FALSE as the key was or was not there at its place in the order.
C13_PerKeyLinearizable ==
    LET c == Settled
    IN  \E p \in Perms(1 .. Len(c)) :
           /\ \A i, j \in 1 .. Len(p) :
                 i < j => ~Precedes(c[p[j]], c[p[i]])
           /\ Legal(c, p, 1, None)

\* C13 witness: a contains was invoked when the key was in the set and no
\* remove had been invoked, overlapped the remove that took the key out,
\* and returned false, the answer after the removal.
C13_ContainsSawRemoval ==
    /\ Len(hist) = 3
    /\ hist[1].op = "insert" /\ hist[1].ret = TRUE
    /\ \E i, j \in 2 .. 3 :
          /\ hist[i].op = "contains" /\ hist[i].ret = FALSE
          /\ hist[j].op = "remove" /\ hist[j].ret = TRUE
          /\ hist[i].inv = 1 /\ hist[j].inv = 1
    /\ hist[3].op = "contains"

\* The threads whose insert of the key returned true, and those whose
\* remove of the key returned true.
InsertWon == {t \in Threads : Len(rets[t]) >= 1 /\ rets[t][1]}
RemoveWon == {t \in Threads : Len(rets[t]) >= 2 /\ rets[t][2]}

\* C19: when all threads insert the same key, absent before, at most one
\* insert ever returns true; once all have returned exactly one has, the
\* set holds the key once, in that call's instance, and len() is one more
\* than before.  When all threads then remove the key, at most one remove
\* ever returns true; once all have returned exactly one has, the key is
\* absent and len() is as before the inserts.
C19_OneWinner ==
    LET others == KeysIn(map["A"]) \ {TheKey}
    IN  /\ Cardinality(InsertWon) <= 1
        /\ Cardinality(RemoveWon) <= 1
        /\ (\A t \in Threads : Len(rets[t]) >= 1) =>
              Cardinality(InsertWon) = 1
        /\ (\A t \in Threads : pc[t] = "wait") =>
              /\ contains("A", TheKey, "g1")
              /\ \A it \in iter("A", "g1") : Yields(it, TheKey) = 1
              /\ len("A") = Cardinality(others) + 1
              /\ \A t \in InsertWon : get("A", TheKey, "g1") = Some(Own(t))
        /\ (\A t \in Threads : pc[t] = "done") =>
              /\ Cardinality(RemoveWon) = 1
              /\ ~contains("A", TheKey, "g1")
              /\ len("A") = Cardinality(others)

\* C19 witness: all threads have inserted and removed the key in a set
\* that holds other keys; the insert of one thread and the remove of
\* another returned true.
C19_DifferentWinners ==
    /\ \A t \in Threads : pc[t] = "done" /\ Len(rets[t]) = 2
    /\ InsertWon # {}
    /\ RemoveWon # {}
    /\ InsertWon # RemoveWon
    /\ len("A") >= 1

\* C14: beside a thread that keeps its guards, nested or not, for as long
\* as it likes, a thread that is to pin a guard can always do so at once;
\* under fair scheduling every call a thread has begun returns and every
\* thread gets through its pin, its calls and its unpin; and what the kept
\* guard holds up is reclamation: nothing removed since it was pinned is
\* reclaimed while it is held.
C14_HeldGuardBlocksNoOne ==
    /\ [](\A t \in Workers : pc[t] = "start" => ENABLED WPin(t))
    /\ \A t \in Workers :
          (pc[t] \in {"call", "scan", "ret"}) ~> (pc[t] = "pinned")
    /\ \A t \in Workers : <>(pc[t] = "done")
    /\ [](is_some(guardOf[Holder]) =>
             \A x \in freed : x.at < guardOf[Holder][1].epoch)

\* C14 witness: the holder still holds two guards, one inside the other,
\* pinned before any call; every worker has finished; and an element a
\* worker removed waits to be reclaimed, which only the holder's pin
\* prevents.
C14_WorkersDoneHolderPinned ==
    /\ Len(guardOf[Holder]) = MaxNest
    /\ \A t \in Workers : pc[t] = "done"
    /\ Len(hist) = MaxWork
    /\ \E x \in garbage : ~Reclaimable(x)
    /\ \E i \in 1 .. Len(hist) :
          hist[i].op = "remove" /\ hist[i].ret = Some(TRUE)

\* C4: when NThreads threads each insert a range of MRange values, the
\* ranges pairwise disjoint, into the initially empty set A, every insert
\* call returns true, and once all threads have completed len() is
\* NThreads * MRange and every inserted value is contained.
C4_DisjointInsertsAllCounted ==
    /\ \A t \in Threads : \A i \in 1 .. Len(rets[t]) : rets[t][i] = TRUE
    /\ (\A t \in Threads : pc[t] = "done") =>
          /\ len("A") = NThreads * MRange
          /\ \A t \in Threads : \A i \in 1 .. MRange :
                contains("A", Value(t, i), "g1")
          /\ \A t \in Threads : Len(rets[t]) = MRange

\* C4 witness: all threads have completed their inserts.
C4_AllThreadsDone ==
    /\ \A t \in Threads : pc[t] = "done" /\ Len(rets[t]) = MRange
    /\ \A t \in Threads : guardOf[t] = None
    /\ Cardinality(KeysIn(map["A"])) = NThreads * MRange

\* C5: the memory of a removed element is not reclaimed while a guard
\* pinned before the removal is still held: every reclaimed element was
\* removed before every live guard was pinned, and a reference obtained
\* through get or take under a guard stays valid until the guard is released.
C5_NoReclaimWhilePinned ==
    \A t \in Threads :
        is_some(guardOf[t]) =>
            /\ \A x \in freed : x.at < guardOf[t][1].epoch
            /\ is_some(ref[t]) => ref[t][1] \notin {x.node : x \in freed}

\* C5 witness: a thread holds, under its guard, a reference to an element
\* removed since, which only its own pin keeps from being reclaimed (every
\* other thread's guard was pinned after the removal), while the store has
\* already reclaimed an older removal.
C5_PinnedRefToRemoved ==
    \E t \in Threads :
        /\ is_some(guardOf[t])
        /\ is_some(ref[t])
        /\ \E x \in garbage :
              /\ x.node = ref[t][1]
              /\ guardOf[t][1].epoch <= x.at
              /\ \A u \in Threads \ {t} :
                    is_some(guardOf[u]) /\ x.at < guardOf[u][1].epoch
        /\ freed # {}

====
